---- MODULE Spec2Model ----
(***************************************************************************)
(* Model of the banking client's transport layer (api_client.py) and the   *)
(* AuthToken value (models.py).  One BankingAPIClient is modelled: its     *)
(* session, its auth token, and the request in progress, one step per      *)
(* await point of _make_request (the HTTP round trip and the backoff       *)
(* sleep).  The remote server and the network are the environment: each    *)
(* attempt is answered by any element of Responses.                        *)
(***************************************************************************)
EXTENDS Integers, Sequences, FiniteSets, TLC

VARIABLES
    max_retries,     \* config.max_retries
    session,         \* self.session: 0 is None, otherwise the id of a ClientSession
    sessions,        \* every ClientSession ever created: its state and close() calls
    inScope,         \* the caller is inside `async with client`
    auth_token,      \* self.auth_token
    now,             \* datetime.now(), in seconds
    op,              \* the operation called last
    arg,             \* its argument (token or account number)
    pc,              \* "idle", "await_response" or "sleep"
    retry_count,     \* retry_count of the running _make_request
    original_token,  \* validate_token's local original_token
    pending,         \* the HTTP request in flight
    trace,           \* attempts and sleeps of the current request, in order
    req_result,      \* how _make_request ended
    result,          \* how the operation ended
    caller,          \* the TransferService method that called the client, "" if none
    svc_result,      \* how that TransferService method ended
    client_calls,    \* client operations started by the call in progress
    request,         \* the TransferRequest constructed last, and its arguments
    cli,             \* main: its arguments, its position and its exit code
    config           \* Config.load: the environment, the file and the Config it made

vars == <<max_retries, session, sessions, inScope, auth_token, now, op, arg, pc,
          retry_count, original_token, pending, trace, req_result, result,
          caller, svc_result, client_calls, request, cli, config>>

----------------------------------------------------------------------------
(* Bounds of the model *)

MaxRetries == 2     \* config.max_retries ranges over 0..MaxRetries
MaxSessions == 2    \* scopes entered in one behaviour
MaxClock == 2       \* the clock saturates here; expiry times lie in 0..MaxClock

(* Program constants *)

ErrorStatus == 400      \* api_client.py:129
SuccessBelow == 300     \* api_client.py:139

NoStatus == 0 - 1       \* status_code = None
NoExpiry == 0 - 1       \* expires_at = None
NoSession == 0          \* session = None

TokenInputs == {"", "tokA", "tokB"}
Accounts == {"ACC1000", "ACC1001"}
Claims == {"transfer", "enquiry"}
HistoryLimit == 10      \* api_client.py:348
BlankStrings == {"", " "}
AccountInputs == Accounts \cup BlankStrings
Amounts == {0 - 50, 0, 100}

Min(a, b) == IF a < b THEN a ELSE b

----------------------------------------------------------------------------
(* AuthToken (models.py) *)

None == [isSet |-> FALSE, token |-> "", expires_at |-> NoExpiry, token_type |-> ""]

AuthToken(t) ==
    [isSet |-> TRUE, token |-> t, expires_at |-> NoExpiry, token_type |-> "Bearer"]

is_expired_late(tok, t) ==
    IF tok.expires_at = NoExpiry THEN FALSE ELSE t > tok.expires_at

is_expired(tok, t) ==
    IF tok.expires_at = NoExpiry THEN FALSE ELSE t >= tok.expires_at

get_header_value(tok) == tok.token_type \o " " \o tok.token

----------------------------------------------------------------------------
(* JSON values and HTTP responses *)

(* A parsed body: an object with the fields the client reads ("absent" or a
   has-flag marks a missing key), or a list with its items *)
JEmpty ==
    [jtype |-> "dict", isValid |-> "absent", valid |-> "absent",
     status |-> "absent", message |-> "absent", token |-> "absent",
     hasAccounts |-> FALSE, accounts |-> <<>>,
     hasTransactions |-> FALSE, transactions |-> <<>>,
     items |-> <<>>,
     transactionId |-> "absent", fromAccount |-> "absent", toAccount |-> "absent",
     hasAmount |-> FALSE, amount |-> 0,
     hasNewFrom |-> FALSE, newFromAccountBalance |-> 0,
     hasNewTo |-> FALSE, newToAccountBalance |-> 0]

JList == [JEmpty EXCEPT !.jtype = "list", !.items = <<"ACC1000">>]

JToken(t) == [JEmpty EXCEPT !.token = t]

JAccounts == [JEmpty EXCEPT !.hasAccounts = TRUE, !.accounts = <<"ACC1000", "ACC1001">>]

JTransactions == [JEmpty EXCEPT !.hasTransactions = TRUE, !.transactions = <<"txn-1">>]

JTransfer ==
    [JEmpty EXCEPT !.transactionId = "txn-123", !.status = "SUCCESS",
                   !.fromAccount = "ACC1000", !.toAccount = "ACC1001",
                   !.hasAmount = TRUE, !.amount = 100,
                   !.hasNewFrom = TRUE, !.newFromAccountBalance = 0,
                   !.hasNewTo = TRUE, !.newToAccountBalance = 200]

Http(st, ct, wf, b, txt) ==
    [kind |-> "http", status |-> st, ctype_json |-> ct, well_formed |-> wf,
     body |-> b, text |-> txt]

Timeout == [Http(0, FALSE, FALSE, JEmpty, "") EXCEPT !.kind = "timeout"]
ConnErr == [Http(0, FALSE, FALSE, JEmpty, "") EXCEPT !.kind = "connerr"]

HttpResponses ==
    { Http(200, TRUE, TRUE, [JEmpty EXCEPT !.isValid = "true", !.valid = "false"], "{..}"),
      Http(200, TRUE, TRUE, [JEmpty EXCEPT !.isValid = "false", !.valid = "true"], "{..}"),
      Http(200, TRUE, TRUE, JEmpty, "{}"),
      Http(200, TRUE, TRUE, JList, "[..]"),
      Http(200, TRUE, TRUE, JToken("tokS"), "{..}"),
      Http(200, TRUE, TRUE, JToken(""), "{..}"),
      Http(200, TRUE, TRUE, JAccounts, "{..}"),
      Http(200, TRUE, TRUE, JTransactions, "{..}"),
      Http(200, TRUE, TRUE, JTransfer, "{..}"),
      Http(200, FALSE, FALSE, JEmpty, "OK"),
      Http(200, TRUE, FALSE, JEmpty, "{oops"),
      Http(304, FALSE, FALSE, JEmpty, ""),
      Http(404, TRUE, TRUE, JEmpty, "Not Found"),
      Http(500, FALSE, FALSE, JEmpty, "Internal Server Error") }

Responses == HttpResponses \cup {Timeout, ConnErr}

----------------------------------------------------------------------------
(* Outcomes: of _make_request (req_result) and of an operation (result) *)

(* TransferResponse (models.py); message, bonus_points, permission_level and
   timestamp are copied from the body and left out here *)
NoTransferResponse ==
    [transaction_id |-> "", status |-> "", from_account |-> "", to_account |-> "",
     amount |-> 0, has_new_from |-> FALSE, new_from_balance |-> 0,
     has_new_to |-> FALSE, new_to_balance |-> 0]

NoResult ==
    [kind |-> "none", exc |-> "", status_code |-> NoStatus, msg |-> "",
     vtype |-> "", bval |-> FALSE, jval |-> JEmpty, sval |-> "", lval |-> <<>>,
     tval |-> NoTransferResponse]

Ok(j) == [NoResult EXCEPT !.kind = "ok", !.jval = j]
Raise(e, st, m) == [NoResult EXCEPT !.kind = "raise", !.exc = e, !.status_code = st, !.msg = m]
ReturnBool(b) == [NoResult EXCEPT !.kind = "return", !.vtype = "bool", !.bval = b]
ReturnJson(j) == [NoResult EXCEPT !.kind = "return", !.vtype = "json", !.jval = j]
ReturnStr(x) == [NoResult EXCEPT !.kind = "return", !.vtype = "str", !.sval = x]
ReturnList(l) == [NoResult EXCEPT !.kind = "return", !.vtype = "list", !.lval = l]
ReturnNone == [NoResult EXCEPT !.kind = "return", !.vtype = "None"]
ReturnTransferResponse(t) ==
    [NoResult EXCEPT !.kind = "return", !.vtype = "TransferResponse", !.tval = t]

(* json_data of a request: none, the credentials or a transfer's wire JSON *)
NoJson ==
    [kind |-> "none", username |-> "", password |-> "",
     fromAccount |-> "", toAccount |-> "", amount |-> 0]

NoPending ==
    [method |-> "", endpoint |-> "", json_data |-> NoJson, params |-> "",
     hasAuth |-> FALSE, Authorization |-> "", sent_at |-> 0]

NoResponse == [Http(0, FALSE, FALSE, JEmpty, "") EXCEPT !.kind = "none"]

AttemptEv(p, r) ==
    [ev |-> "attempt", method |-> p.method, endpoint |-> p.endpoint,
     json_data |-> p.json_data, params |-> p.params,
     hasAuth |-> p.hasAuth, Authorization |-> p.Authorization,
     response |-> r, secs |-> 0]

SleepEv(s) ==
    [ev |-> "sleep", method |-> "", endpoint |-> "", json_data |-> NoJson,
     params |-> "", hasAuth |-> FALSE,
     Authorization |-> "", response |-> NoResponse, secs |-> s]

----------------------------------------------------------------------------
(* BankingAPIClient._make_request *)

ShouldRetry_OffByOne(rc) == rc <= max_retries

ShouldRetry_OneShort(rc) == rc + 1 < max_retries

ShouldRetry(rc) == rc < max_retries

Backoff_Linear(rc) == 2 * rc

Backoff(rc) == 2 ^ rc

IsErrorStatus_ServerOnly(st) == st >= 500

IsErrorStatus(st) == st >= ErrorStatus

AttachAuth(tok, t) == tok.isSet /\ ~is_expired(tok, t)

BuildHeaders(tok, t) ==
    IF AttachAuth(tok, t)
    THEN [hasAuth |-> TRUE, Authorization |-> get_header_value(tok)]
    ELSE [hasAuth |-> FALSE, Authorization |-> ""]

(* Entry of one _make_request call, up to the await of session.request: the
   guard on self.session, the headers, and the request handed to the session.
   A ClientSession that was closed refuses the request with its own
   RuntimeError before anything is sent. *)
make_request_begin(method, endpoint, json_data, params, tok, t) ==
    IF session = NoSession
    THEN [raised |-> TRUE, pending |-> NoPending,
          rr |-> Raise("RuntimeError", NoStatus, "not_initialized")]
    ELSE IF sessions[session].state # "open"
    THEN [raised |-> TRUE, pending |-> NoPending,
          rr |-> Raise("RuntimeError", NoStatus, "session_closed")]
    ELSE [raised |-> FALSE, rr |-> NoResult,
          pending |-> [method |-> method, endpoint |-> endpoint,
                       json_data |-> json_data, params |-> params,
                       hasAuth |-> BuildHeaders(tok, t).hasAuth,
                       Authorization |-> BuildHeaders(tok, t).Authorization,
                       sent_at |-> t]]

(* What _make_request makes of an HTTP response *)
HandleResponse(r) ==
    IF IsErrorStatus(r.status)
    THEN Raise("BankingAPIError", r.status, r.text)
    ELSE IF r.ctype_json
    THEN IF r.well_formed THEN Ok(r.body)
         ELSE Raise("JSONDecodeError", NoStatus, r.text)
    ELSE IF r.status < SuccessBelow
    THEN Ok([JEmpty EXCEPT !.status = "success", !.message = r.text])
    ELSE Raise("BankingAPIError", NoStatus, r.text)

----------------------------------------------------------------------------
(* TransferRequest and TransferResponse (models.py) *)

NoRequest == [exists |-> FALSE, from_account |-> "", to_account |-> "", amount |-> 0]

(* s.strip(), on the strings of AccountInputs *)
Strip(s) == IF s \in BlankStrings THEN "" ELSE s

IsBlank(s) == s = "" \/ Strip(s) = ""

PostInitError_AmountFirst(f, t, amt) ==
    IF amt <= 0 THEN "Transfer amount must be positive"
    ELSE IF IsBlank(f) THEN "Source account cannot be empty"
    ELSE IF IsBlank(t) THEN "Destination account cannot be empty"
    ELSE IF f = t THEN "Source and destination accounts must be different"
    ELSE ""

(* TransferRequest.__post_init__: the message of the ValueError, "" if none *)
PostInitError(f, t, amt) ==
    IF IsBlank(f) THEN "Source account cannot be empty"
    ELSE IF IsBlank(t) THEN "Destination account cannot be empty"
    ELSE IF f = t THEN "Source and destination accounts must be different"
    ELSE IF amt <= 0 THEN "Transfer amount must be positive"
    ELSE ""

(* TransferRequest.to_dict; float(amount) keeps the value of these amounts *)
to_dict(req) ==
    [NoJson EXCEPT !.kind = "transfer", !.fromAccount = req.from_account,
                   !.toAccount = req.to_account, !.amount = req.amount]

OrDefault(v, d) == IF v = "absent" THEN d ELSE v

(* TransferResponse.from_dict *)
from_dict(j) ==
    [transaction_id |-> OrDefault(j.transactionId, ""),
     status |-> OrDefault(j.status, "UNKNOWN"),
     from_account |-> OrDefault(j.fromAccount, ""),
     to_account |-> OrDefault(j.toAccount, ""),
     amount |-> IF j.hasAmount THEN j.amount ELSE 0,
     has_new_from |-> j.hasNewFrom /\ j.newFromAccountBalance # 0,
     new_from_balance |->
        IF j.hasNewFrom /\ j.newFromAccountBalance # 0 THEN j.newFromAccountBalance ELSE 0,
     has_new_to |-> j.hasNewTo /\ j.newToAccountBalance # 0,
     new_to_balance |->
        IF j.hasNewTo /\ j.newToAccountBalance # 0 THEN j.newToAccountBalance ELSE 0]

----------------------------------------------------------------------------
(* The operations built on _make_request *)

RequestOps ==
    {"validate_token", "validate_account", "get_account_balance",
     "get_auth_token", "list_accounts", "transfer", "get_transaction_history"}

Method(o) ==
    IF o \in {"validate_token", "get_auth_token", "transfer"} THEN "POST" ELSE "GET"

Endpoint(o, a) ==
    CASE o = "validate_token" -> "/auth/validate"
      [] o = "validate_account" -> "/accounts/validate/" \o a
      [] o = "get_account_balance" -> "/accounts/balance/" \o a
      [] o = "get_auth_token" -> "/authToken"
      [] o = "list_accounts" -> "/accounts"
      [] o = "transfer" -> "/transfer"
      [] o = "get_transaction_history" -> "/transactions/history"

(* The query parameters: claim for get_auth_token (its argument), limit and
   the optional accountNumber for get_transaction_history *)
Params(o, a) ==
    CASE o = "get_auth_token" -> "claim=" \o a
      [] o = "get_transaction_history" ->
           IF a # ""
           THEN "limit=" \o ToString(HistoryLimit) \o "&accountNumber=" \o a
           ELSE "limit=" \o ToString(HistoryLimit)
      [] OTHER -> ""

JsonData(o, req) ==
    CASE o = "get_auth_token" ->
           [NoJson EXCEPT !.kind = "credentials", !.username = "alice", !.password = "any"]
      [] o = "transfer" -> to_dict(req)
      [] OTHER -> NoJson

SwallowsApiError_None(o) == FALSE

SwallowsApiError(o) == o \in {"validate_account", "validate_token"}

(* response.get(key, False) on the parsed body *)
GetBool(j, key) ==
    IF j.jtype # "dict"
    THEN Raise("AttributeError", NoStatus, "get")
    ELSE ReturnBool(IF key = "isValid" THEN j.isValid = "true" ELSE j.valid = "true")

HasToken_AllowsEmpty(t) == t # "absent"

(* `if not token` fails: the token field is there and not empty *)
HasToken(t) == t # "absent" /\ t # ""

(* get_auth_token after its request returned *)
TokenResult(j) ==
    IF j.jtype # "dict"
    THEN Raise("AttributeError", NoStatus, "get")
    ELSE IF HasToken(j.token)
    THEN ReturnStr(j.token)
    ELSE Raise("BankingAPIError", NoStatus, "No token in authentication response")

AccountsResult_DropsPlainList(j) ==
    IF j.jtype = "dict" /\ j.hasAccounts THEN ReturnList(j.accounts) ELSE ReturnList(<<>>)

AccountsResult_RequiresKey(j) ==
    IF j.jtype = "dict"
    THEN IF j.hasAccounts THEN ReturnList(j.accounts)
         ELSE Raise("KeyError", NoStatus, "accounts")
    ELSE ReturnList(j.items)

(* list_accounts after its request returned; `accounts`, when there, is a list
   as the server documents, so len(accounts) in the log line succeeds *)
AccountsResult(j) ==
    IF j.jtype = "dict" /\ j.hasAccounts
    THEN ReturnList(j.accounts)
    ELSE IF j.jtype = "list" THEN ReturnList(j.items) ELSE ReturnList(<<>>)

(* get_transaction_history after its request returned *)
TransactionsResult(j) ==
    IF j.jtype # "dict"
    THEN Raise("AttributeError", NoStatus, "get")
    ELSE ReturnList(IF j.hasTransactions THEN j.transactions ELSE <<>>)

(* The operation's own handling of how _make_request ended *)
OpResult(o, rr) ==
    IF rr.kind = "raise"
    THEN IF rr.exc = "BankingAPIError" /\ SwallowsApiError(o)
         THEN ReturnBool(FALSE)
         ELSE rr
    ELSE CASE o = "validate_token" -> GetBool(rr.jval, "valid")
           [] o = "validate_account" -> GetBool(rr.jval, "isValid")
           [] o = "get_account_balance" ->
                IF rr.jval.jtype # "dict"
                THEN Raise("AttributeError", NoStatus, "get")
                ELSE ReturnJson(rr.jval)
           [] o = "get_auth_token" -> TokenResult(rr.jval)
           [] o = "list_accounts" -> AccountsResult(rr.jval)
           [] o = "transfer" -> ReturnJson(rr.jval)
           [] o = "get_transaction_history" -> TransactionsResult(rr.jval)

OverrideToken_Keep(cur, tok) == cur

OverrideToken(cur, tok) == AuthToken(tok)

TokenAfter_ClearedOnError(o, rr, tok, orig) ==
    IF o = "validate_token" /\ rr.kind = "ok" THEN orig
    ELSE IF rr.kind = "raise" /\ rr.exc = "BankingAPIError" THEN None ELSE tok

(* self.auth_token when the operation ends: validate_token puts original_token
   back on the line after its request returned, and nowhere else *)
TokenAfter(o, rr, tok, orig) ==
    IF o = "validate_token" /\ rr.kind = "ok" THEN orig ELSE tok

----------------------------------------------------------------------------
(* TransferService (services.py) *)

ServiceMethods ==
    {"authenticate", "validate_account", "transfer", "get_balance",
     "list_accounts", "validate_token", "get_transaction_history"}

(* The client operation a TransferService method awaits *)
ClientOp(c) ==
    CASE c = "authenticate" -> "get_auth_token"
      [] c = "get_balance" -> "get_account_balance"
      [] OTHER -> c

SvcCatches_ApiErrorOnly(c, e) ==
    c \in {"authenticate", "validate_account", "validate_token"} /\ e = "BankingAPIError"

SvcCatches_HistoryToo(c, e) ==
    c \in {"authenticate", "validate_account", "validate_token", "get_transaction_history"}

SvcCatches_NotAuthenticate(c, e) == c \in {"validate_account", "validate_token"}

SvcCatches_TransferToo(c, e) ==
    c \in {"authenticate", "validate_account", "validate_token", "transfer"}

(* The methods whose `except Exception` returns a default; get_balance,
   list_accounts and get_transaction_history log and re-raise, transfer has
   no handler *)
SvcCatches(c, e) == c \in {"authenticate", "validate_account", "validate_token"}

SvcDefault(c) ==
    IF c = "authenticate" THEN ReturnNone ELSE ReturnBool(FALSE)

(* How the TransferService method ends, given how the client operation ended *)
SvcResult(c, res) ==
    IF res.kind = "raise"
    THEN IF SvcCatches(c, res.exc) THEN SvcDefault(c) ELSE res
    ELSE IF c = "transfer"
    THEN IF res.jval.jtype # "dict"
         THEN Raise("AttributeError", NoStatus, "get")
         ELSE ReturnTransferResponse(from_dict(res.jval))
    ELSE res

SvcTokenAfter_ClearedOnFailure(c, res, tok) ==
    IF c = "authenticate"
    THEN IF res.kind = "return" THEN AuthToken(res.sval) ELSE None
    ELSE tok

(* authenticate calls set_auth_token with the token it was given *)
SvcTokenAfter(c, res, tok) ==
    IF c = "authenticate" /\ res.kind = "return" THEN AuthToken(res.sval) ELSE tok

(* The application is between two operations: nothing is in flight and the
   outcome of the last request, if any, was taken by the code that awaited it *)
Ready == pc = "idle" /\ result = NoResult

(* transfer is given the TransferRequest that was just built *)
HasRequest == pc = "idle" /\ op = "TransferRequest" /\ request.exists

Finished(c, o, rr, tok, orig) ==
    /\ pc' = "idle"
    /\ pending' = NoPending
    /\ req_result' = rr
    /\ result' = OpResult(o, rr)
    /\ svc_result' = IF c = "" THEN NoResult ELSE SvcResult(c, OpResult(o, rr))
    /\ auth_token' = SvcTokenAfter(c, OpResult(o, rr), TokenAfter(o, rr, tok, orig))

FirstRetryCount_Carried(rc) == rc

(* retry_count of the first _make_request of an operation: the parameter's
   default, whatever the request before it left *)
FirstRetryCount(rc) == 0

(* A client operation o(a) starts, called by TransferService method c or, when
   c is "", by the application itself *)
Start(c, o, a) ==
    /\ IF o = "transfer" THEN HasRequest ELSE Ready
    /\ LET tok == IF o = "validate_token" THEN OverrideToken(auth_token, a) ELSE auth_token
           orig == IF o = "validate_token" THEN auth_token ELSE None
           req == IF o = "transfer" THEN request ELSE NoRequest
           st == make_request_begin(Method(o), Endpoint(o, a), JsonData(o, req),
                                    Params(o, a), tok, now)
       IN /\ op' = o
          /\ arg' = a
          /\ caller' = c
          /\ client_calls' = 1
          /\ request' = req
          /\ original_token' = orig
          /\ retry_count' = FirstRetryCount(retry_count)
          /\ trace' = <<>>
          /\ IF st.raised
             THEN Finished(c, o, st.rr, tok, orig)
             ELSE /\ pc' = "await_response"
                  /\ pending' = st.pending
                  /\ auth_token' = tok
                  /\ req_result' = NoResult
                  /\ result' = NoResult
                  /\ svc_result' = NoResult
    /\ UNCHANGED <<max_retries, session, sessions, inScope, now, cli, config>>

Call(o, a) == Start("", o, a)

validate_token(tok) == Call("validate_token", tok)

validate_account(account_number) == Call("validate_account", account_number)

get_account_balance(account_number) == Call("get_account_balance", account_number)

get_auth_token(claim) == Call("get_auth_token", claim)

list_accounts == Call("list_accounts", "")

transfer == Call("transfer", "")

get_transaction_history(account_number) == Call("get_transaction_history", account_number)

(* A TransferService method starts: it awaits its one client operation;
   authenticate asks for the claim "transfer" *)
ServiceCall(c, a) == Start(c, ClientOp(c), IF c = "authenticate" THEN "transfer" ELSE a)

ServiceArgs(c) ==
    CASE c \in {"validate_account", "get_balance"} -> Accounts
      [] c = "validate_token" -> TokenInputs
      [] c = "get_transaction_history" -> Accounts \cup {""}
      [] OTHER -> {""}

(* The session answers the request in flight: an HTTP response, a timeout or
   a connection failure *)
Respond(r) ==
    /\ pc = "await_response"
    /\ IF r.kind = "http"
       THEN /\ trace' = Append(trace, AttemptEv(pending, r))
            /\ Finished(caller, op, HandleResponse(r), auth_token, original_token)
       ELSE IF ShouldRetry(retry_count)
       THEN /\ trace' = trace \o <<AttemptEv(pending, r), SleepEv(Backoff(retry_count))>>
            /\ pc' = "sleep"
            /\ pending' = NoPending
            /\ UNCHANGED <<req_result, result, svc_result, auth_token>>
       ELSE /\ trace' = Append(trace, AttemptEv(pending, r))
            /\ Finished(caller, op, Raise("ConnectionError", NoStatus, r.kind),
                        auth_token, original_token)
    /\ UNCHANGED <<max_retries, session, sessions, inScope, now, op, arg,
                   retry_count, original_token, caller, client_calls, request,
                   cli, config>>

(* asyncio.sleep returns and _make_request calls itself with retry_count + 1 *)
Wake ==
    /\ pc = "sleep"
    /\ LET t == Min(now + Backoff(retry_count), MaxClock)
           st == make_request_begin(Method(op), Endpoint(op, arg), JsonData(op, request),
                                    Params(op, arg), auth_token, t)
       IN /\ now' = t
          /\ retry_count' = retry_count + 1
          /\ IF st.raised
             THEN Finished(caller, op, st.rr, auth_token, original_token)
             ELSE /\ pc' = "await_response"
                  /\ pending' = st.pending
                  /\ UNCHANGED <<req_result, result, svc_result, auth_token>>
    /\ UNCHANGED <<max_retries, session, sessions, inScope, op, arg,
                   original_token, trace, caller, client_calls, request, cli, config>>

----------------------------------------------------------------------------
(* main (banking_client.py): the command line, and where main goes on after
   each statement it awaits *)

NoExitCode == 0 - 1

(* cli.pc is "none" when the client is used as a library, without main *)
NoCli ==
    [pc |-> "none", auth |-> FALSE, history |-> FALSE, check_balance |-> FALSE,
     validate |-> FALSE, from_account |-> "", to_account |-> "", has_amount |-> FALSE,
     amount |-> 0, token |-> "", from_valid |-> "unknown", to_valid |-> "unknown",
     exit_code |-> NoExitCode, error |-> FALSE, prev_exhausted |-> FALSE]

(* --from, --to and --amount were all given *)
TransferMode(c) == c.from_account # "" /\ c.to_account # "" /\ c.has_amount

(* `return code` inside the `async with` block *)
CliReturn(c, code) == [c EXCEPT !.pc = "exit", !.exit_code = code]

(* An exception leaves the `async with` block; each handler returns 1 *)
CliFail(c) == [c EXCEPT !.pc = "exit", !.exit_code = 1, !.error = TRUE]

CliAfterBalance(c) ==
    [c EXCEPT !.pc = IF c.validate THEN "validate_from" ELSE "build_request"]

CliAfterHistory(c) ==
    IF ~TransferMode(c) THEN CliReturn(c, 0)
    ELSE IF c.check_balance THEN [c EXCEPT !.pc = "balance_from"]
    ELSE CliAfterBalance(c)

CliAfterAuth(c) ==
    IF c.history THEN [c EXCEPT !.pc = "history"] ELSE CliAfterHistory(c)

CliAfterEnter(c) ==
    IF c.pc # "enter" THEN c
    ELSE IF c.auth THEN [c EXCEPT !.pc = "authenticate"]
    ELSE CliAfterAuth(c)

CliAfterValidation_SourceOnly(c) ==
    IF c.from_valid # "true" THEN CliReturn(c, 1) ELSE [c EXCEPT !.pc = "build_request"]

(* Both validate_account calls have returned: `if not from_valid: return 1`,
   `if not to_valid: return 1` *)
CliAfterValidation(c) ==
    IF c.from_valid # "true" THEN CliReturn(c, 1)
    ELSE IF c.to_valid # "true" THEN CliReturn(c, 1)
    ELSE [c EXCEPT !.pc = "build_request"]

Verdict(res) == IF res.bval THEN "true" ELSE "false"

(* main after the TransferService call it awaited ended with res; rr is how
   that call's _make_request ended *)
CliAfterAwait(c, res, rr) ==
    LET d == [c EXCEPT !.prev_exhausted = rr.kind = "raise" /\ rr.exc = "ConnectionError"]
    IN CASE c.pc = "authenticate" ->
              IF res.vtype = "str"
              THEN [d EXCEPT !.pc = "validate_token", !.token = res.sval]
              ELSE CliAfterAuth(d)
         [] c.pc = "validate_token" -> CliAfterAuth(d)
         [] c.pc = "history" ->
              IF res.kind = "raise" /\ ~TransferMode(d)
              THEN CliReturn(d, 1)
              ELSE CliAfterHistory(d)
         [] c.pc = "balance_from" ->
              IF res.kind = "raise" THEN CliAfterBalance(d) ELSE [d EXCEPT !.pc = "balance_to"]
         [] c.pc = "balance_to" -> CliAfterBalance(d)
         [] c.pc = "validate_from" ->
              [d EXCEPT !.pc = "validate_to", !.from_valid = Verdict(res)]
         [] c.pc = "validate_to" -> CliAfterValidation([d EXCEPT !.to_valid = Verdict(res)])
         [] c.pc = "transfer" -> IF res.kind = "raise" THEN CliFail(d) ELSE CliReturn(d, 0)
         [] OTHER -> c

(* main after TransferRequest(...): a ValueError goes to its handler *)
CliAfterRequest(c, err) ==
    IF c.pc # "build_request" THEN c
    ELSE IF err = "" THEN [c EXCEPT !.pc = "transfer"]
    ELSE CliFail(c)

CliAfterExit(c) == IF c.pc = "exit" THEN [c EXCEPT !.pc = "done"] ELSE c

CliStages ==
    {"authenticate", "validate_token", "history", "balance_from", "balance_to",
     "validate_from", "validate_to", "transfer"}

(* The TransferService method main awaits at each position, and its argument *)
CliMethod(c) ==
    CASE c.pc = "authenticate" -> "authenticate"
      [] c.pc = "validate_token" -> "validate_token"
      [] c.pc = "history" -> "get_transaction_history"
      [] c.pc \in {"balance_from", "balance_to"} -> "get_balance"
      [] c.pc \in {"validate_from", "validate_to"} -> "validate_account"
      [] c.pc = "transfer" -> "transfer"

CliArg(c) ==
    CASE c.pc = "validate_token" -> c.token
      [] c.pc \in {"history", "balance_from", "validate_from"} -> c.from_account
      [] c.pc \in {"balance_to", "validate_to"} -> c.to_account
      [] OTHER -> ""

----------------------------------------------------------------------------
(* The connection scope, the token setter and the TransferRequest constructor *)

Forget ==
    /\ arg' = ""
    /\ original_token' = None
    /\ trace' = <<>>
    /\ req_result' = NoResult
    /\ result' = NoResult
    /\ caller' = ""
    /\ svc_result' = NoResult
    /\ client_calls' = 0
    /\ request' = NoRequest

Created == {i \in 1..MaxSessions : sessions[i].state # "none"}

__aenter__ ==
    /\ Ready
    /\ ~inScope
    /\ Cardinality(Created) < MaxSessions
    /\ LET id == Cardinality(Created) + 1
       IN /\ sessions' = [sessions EXCEPT ![id].state = "open"]
          /\ session' = id
    /\ inScope' = TRUE
    /\ op' = "__aenter__"
    /\ Forget
    /\ cli' = CliAfterEnter(cli)
    /\ UNCHANGED <<max_retries, auth_token, now, pc, retry_count, pending, config>>

aexit_LeakOnError(byError) ==
    /\ Ready
    /\ inScope
    /\ sessions' =
         IF session # NoSession /\ ~byError
         THEN [sessions EXCEPT ![session].state = "closed",
                               ![session].closes = @ + 1,
                               ![session].exit = "normal"]
         ELSE sessions
    /\ inScope' = FALSE
    /\ op' = "__aexit__"
    /\ Forget
    /\ cli' = CliAfterExit(cli)
    /\ UNCHANGED <<max_retries, session, auth_token, now, pc, retry_count, pending, config>>

(* The body of `async with` ends, normally or by an error it lets escape.
   Scopes of the one client follow each other, as in main: the client is
   entered again only after it was exited. *)
__aexit__(byError) ==
    /\ Ready
    /\ inScope
    /\ sessions' =
         IF session # NoSession
         THEN [sessions EXCEPT ![session].state = "closed",
                               ![session].closes = @ + 1,
                               ![session].exit = IF byError THEN "error" ELSE "normal"]
         ELSE sessions
    /\ inScope' = FALSE
    /\ op' = "__aexit__"
    /\ Forget
    /\ cli' = CliAfterExit(cli)
    /\ UNCHANGED <<max_retries, session, auth_token, now, pc, retry_count, pending, config>>

set_auth_token(token) ==
    /\ Ready
    /\ auth_token' = AuthToken(token)
    /\ op' = "set_auth_token"
    /\ Forget
    /\ UNCHANGED <<max_retries, session, sessions, inScope, now, pc, retry_count, pending,
                   cli, config>>

(* TransferRequest(from_account, to_account, amount): the dataclass is built
   and __post_init__ validates it; on ValueError no object comes to exist and
   `request` keeps only the arguments that were given *)
TransferRequest(f, t, amt) ==
    /\ Ready
    /\ op' = "TransferRequest"
    /\ request' = [exists |-> PostInitError(f, t, amt) = "",
                   from_account |-> f, to_account |-> t, amount |-> amt]
    /\ result' = IF PostInitError(f, t, amt) = ""
                 THEN [NoResult EXCEPT !.kind = "return", !.vtype = "TransferRequest"]
                 ELSE Raise("ValueError", NoStatus, PostInitError(f, t, amt))
    /\ arg' = ""
    /\ original_token' = None
    /\ trace' = <<>>
    /\ req_result' = NoResult
    /\ caller' = ""
    /\ svc_result' = NoResult
    /\ client_calls' = 0
    /\ cli' = CliAfterRequest(cli, PostInitError(f, t, amt))
    /\ UNCHANGED <<max_retries, session, sessions, inScope, auth_token, now, pc,
                   retry_count, pending, config>>

(* The awaited operation has ended, by a value or by an exception, and the code
   that awaited it goes on with the outcome; when that code is main, it moves
   to its next statement *)
Resume ==
    /\ pc = "idle"
    /\ ~Ready
    /\ op' = "Resume"
    /\ Forget
    /\ cli' = CliAfterAwait(cli, svc_result, req_result)
    /\ UNCHANGED <<max_retries, session, sessions, inScope, auth_token, now, pc, pending,
                   retry_count, config>>

(* The clock advances between operations; within a request it advances by the
   back-off sleeps (Wake) *)
Tick ==
    /\ Ready
    /\ now < MaxClock
    /\ now' = now + 1
    /\ UNCHANGED <<max_retries, session, sessions, inScope, auth_token, op, arg, pc,
                   retry_count, original_token, pending, trace, req_result, result,
                   caller, svc_result, client_calls, request, cli, config>>

----------------------------------------------------------------------------
(* Config.load (config.py) *)

DefaultBaseUrl == "http://localhost:8123"
DefaultTimeout == 30
DefaultMaxRetries == 3

(* os.getenv of a variable that is not in the environment *)
Unset == "<unset>"

(* What _load_from_file returned: the keys it holds; {} when there is no file
   or it cannot be read *)
NoFile ==
    [has_base_url |-> FALSE, base_url |-> "", has_timeout |-> FALSE, timeout |-> 0,
     has_max_retries |-> FALSE, max_retries |-> 0]

FileInputs ==
    {[has_base_url |-> u, base_url |-> IF u THEN "http://file:7000" ELSE "",
      has_timeout |-> t, timeout |-> IF t THEN 60 ELSE 0,
      has_max_retries |-> r, max_retries |-> IF r THEN 5 ELSE 0] : u, t, r \in BOOLEAN}

EnvUrls == {Unset, "", "http://env:9000"}

EnvInts == {Unset, "", "45", "abc"}

NoConfig ==
    [loaded |-> FALSE, env_url |-> Unset, env_timeout |-> Unset,
     env_max_retries |-> Unset, file |-> NoFile,
     base_url |-> "", timeout |-> 0, max_retries |-> 0]

ConfigInputs ==
    {[NoConfig EXCEPT !.env_url = u, !.env_timeout = t, !.env_max_retries = r, !.file = f] :
        u \in EnvUrls, t \in EnvInts, r \in EnvInts, f \in FileInputs}

(* `if os.getenv(NAME)`: the variable is there and not empty *)
Truthy(v) == v # Unset /\ v # ""

(* int(v) does not raise ValueError, on the strings of EnvInts *)
ParsesAsInt(v) == v = "45"

IntOf(v) == IF v = "45" THEN 45 ELSE 0

Setting_FileFirst(envOk, envVal, fileHas, fileVal, default) ==
    IF fileHas THEN fileVal ELSE IF envOk THEN envVal ELSE default

(* One field of the Config: config_data starts as the file's data, a usable
   environment value replaces the entry, and the Config constructor fills what
   is missing with the dataclass default *)
Setting(envOk, envVal, fileHas, fileVal, default) ==
    IF envOk THEN envVal ELSE IF fileHas THEN fileVal ELSE default

Config_load(c) ==
    [c EXCEPT
       !.loaded = TRUE,
       !.base_url = Setting(Truthy(c.env_url), c.env_url,
                            c.file.has_base_url, c.file.base_url, DefaultBaseUrl),
       !.timeout = Setting(Truthy(c.env_timeout) /\ ParsesAsInt(c.env_timeout),
                           IntOf(c.env_timeout),
                           c.file.has_timeout, c.file.timeout, DefaultTimeout),
       !.max_retries = Setting(Truthy(c.env_max_retries) /\ ParsesAsInt(c.env_max_retries),
                               IntOf(c.env_max_retries),
                               c.file.has_max_retries, c.file.max_retries,
                               DefaultMaxRetries)]

load ==
    /\ ~config.loaded
    /\ config' = Config_load(config)
    /\ UNCHANGED <<max_retries, session, sessions, inScope, auth_token, now, op, arg, pc,
                   retry_count, original_token, pending, trace, req_result, result,
                   caller, svc_result, client_calls, request, cli>>

----------------------------------------------------------------------------
(* main's own steps *)

main_enter == cli.pc = "enter" /\ __aenter__

main_await == cli.pc \in CliStages /\ ServiceCall(CliMethod(cli), CliArg(cli))

main_build_request ==
    /\ cli.pc = "build_request"
    /\ TransferRequest(cli.from_account, cli.to_account, cli.amount)

(* The awaited call has ended; before transfer is called the outcome at hand
   is the TransferRequest, which is not awaited *)
main_resume == (cli.pc = "transfer" => caller = "transfer") /\ Resume

main_exit == cli.pc = "exit" /\ __aexit__(cli.error)

----------------------------------------------------------------------------
(* Specifications *)

InitRest ==
    /\ max_retries \in 0..MaxRetries
    /\ session = NoSession
    /\ sessions = [i \in 1..MaxSessions |-> [state |-> "none", closes |-> 0, exit |-> ""]]
    /\ inScope = FALSE
    /\ now = 0
    /\ op = "init"
    /\ arg = ""
    /\ pc = "idle"
    /\ retry_count = 0
    /\ original_token = None
    /\ pending = NoPending
    /\ trace = <<>>
    /\ req_result = NoResult
    /\ result = NoResult
    /\ caller = ""
    /\ svc_result = NoResult
    /\ client_calls = 0
    /\ request = NoRequest

(* The client is used as a library: no main, no Config.load *)
Library == cli = NoCli /\ config = NoConfig

Init == InitRest /\ Library /\ auth_token = None

Next ==
    \/ __aenter__
    \/ \E byError \in BOOLEAN : __aexit__(byError)
    \/ \E token \in TokenInputs : set_auth_token(token)
    \/ \E tok \in TokenInputs : validate_token(tok)
    \/ \E a \in Accounts : validate_account(a)
    \/ \E a \in Accounts : get_account_balance(a)
    \/ \E claim \in Claims : get_auth_token(claim)
    \/ list_accounts
    \/ transfer
    \/ \E a \in Accounts \cup {""} : get_transaction_history(a)
    \/ \E c \in ServiceMethods : \E a \in ServiceArgs(c) : ServiceCall(c, a)
    \/ \E f, t \in AccountInputs : \E amt \in Amounts : TransferRequest(f, t, amt)
    \/ \E r \in Responses : Respond(r)
    \/ Wake
    \/ Resume
    \/ Tick

Spec == Init /\ [][Next]_vars

(* The same client started with any AuthToken value in self.auth_token,
   expiring ones included *)
ExpiringTokens ==
    {[AuthToken("tokA") EXCEPT !.expires_at = e] : e \in 0..MaxClock}
      \cup {[AuthToken("tokB") EXCEPT !.expires_at = 1, !.token_type = "JWT"]}

InitAuth == InitRest /\ Library /\ auth_token \in {None} \cup ExpiringTokens

(* The application calls the client itself: every request TransferService makes
   is one of these client operations *)
NextAuth ==
    \/ __aenter__
    \/ \E byError \in BOOLEAN : __aexit__(byError)
    \/ \E token \in TokenInputs : set_auth_token(token)
    \/ \E tok \in TokenInputs : validate_token(tok)
    \/ \E a \in Accounts : validate_account(a)
    \/ \E a \in Accounts : get_account_balance(a)
    \/ \E claim \in Claims : get_auth_token(claim)
    \/ list_accounts
    \/ transfer
    \/ \E a \in Accounts \cup {""} : get_transaction_history(a)
    \/ \E f, t \in AccountInputs : \E amt \in Amounts : TransferRequest(f, t, amt)
    \/ \E r \in Responses : Respond(r)
    \/ Wake
    \/ Resume
    \/ Tick

SpecAuth == InitAuth /\ [][NextAuth]_vars

(* main run from the command line *)
CliTransferArgs ==
    {[f |-> "", t |-> "", given |-> FALSE, m |-> 0],
     [f |-> "ACC1000", t |-> "ACC1001", given |-> TRUE, m |-> 100],
     [f |-> "ACC1000", t |-> "ACC1000", given |-> TRUE, m |-> 100]}

(* The command lines parse_args and the two parser.error checks let through *)
CliInputs ==
    {c \in {[NoCli EXCEPT !.pc = "enter", !.auth = a, !.history = h, !.check_balance = b,
                          !.validate = v, !.from_account = x.f, !.to_account = x.t,
                          !.has_amount = x.given, !.amount = x.m] :
                a \in BOOLEAN, h \in BOOLEAN, b \in BOOLEAN, v \in BOOLEAN,
                x \in CliTransferArgs} :
        IF c.history THEN c.auth ELSE TransferMode(c)}

InitCli == InitRest /\ auth_token = None /\ config = NoConfig /\ cli \in CliInputs

NextCli ==
    \/ main_enter
    \/ main_await
    \/ main_build_request
    \/ \E r \in Responses : Respond(r)
    \/ Wake
    \/ main_resume
    \/ main_exit

SpecCli == InitCli /\ [][NextCli]_vars

(* Config.load on every environment and file of ConfigInputs *)
InitConfig == InitRest /\ auth_token = None /\ cli = NoCli /\ config \in ConfigInputs

SpecConfig == InitConfig /\ [][load]_vars

----------------------------------------------------------------------------
(* Properties *)

Attempts == {i \in 1..Len(trace) : trace[i].ev = "attempt"}

Sleeps == {i \in 1..Len(trace) : trace[i].ev = "sleep"}

TransportFailure(i) == trace[i].response.kind \in {"timeout", "connerr"}

RequestEnded == pc = "idle" /\ op \in RequestOps

(* C1: when validate_token(tok) has ended with a successful answer, with a
   BankingAPIError swallowed into False, or with ConnectionError after the
   retries, the client's auth token is the one it held before the call. *)
C1_TokenRestoredOnEveryExit ==
    (/\ pc = "idle"
     /\ op = "validate_token"
     /\ \/ req_result.kind = "ok"
        \/ req_result.kind = "raise" /\ req_result.exc \in {"BankingAPIError", "ConnectionError"})
    => auth_token = original_token

(* C2: one request makes at most max_retries + 1 HTTP attempts, timeouts and
   connection failures counted together, and once max_retries + 1 attempts
   have failed that way the request has ended by raising ConnectionError. *)
C2_AtMostMaxRetriesPlusOneAttempts ==
    /\ Cardinality(Attempts) + (IF pc = "await_response" THEN 1 ELSE 0) <= max_retries + 1
    /\ Cardinality({i \in Attempts : TransportFailure(i)}) = max_retries + 1
         => /\ pc = "idle"
            /\ req_result.kind = "raise"
            /\ req_result.exc = "ConnectionError"

C2_Witness ==
    /\ RequestEnded
    /\ max_retries = MaxRetries
    /\ Cardinality(Attempts) = max_retries + 1
    /\ \E i, j \in Attempts : /\ trace[i].response.kind = "timeout"
                              /\ trace[j].response.kind = "connerr"
    /\ req_result.exc = "ConnectionError"

(* C3: an attempt, first or retry, that receives an HTTP status >= 400 is the
   last attempt of its request, and the request raises BankingAPIError
   carrying that status code. *)
C3_ErrorStatusRaisesWithoutRetry ==
    \A i \in Attempts :
        (trace[i].response.kind = "http" /\ trace[i].response.status >= 400)
        => /\ i = Len(trace)
           /\ pc = "idle"
           /\ req_result.kind = "raise"
           /\ req_result.exc = "BankingAPIError"
           /\ req_result.status_code = trace[i].response.status

C3_Witness ==
    /\ RequestEnded
    /\ Cardinality(Attempts) >= 2
    /\ trace[Len(trace)].response.status = 404
    /\ req_result.exc = "BankingAPIError"
    /\ req_result.status_code = 404

(* C4: a request made while the client is outside an open connection scope,
   before the scope was entered or after it was exited, fails with the
   client's not-initialized RuntimeError, is not retried and sends nothing. *)
C4_OutsideScopeNotInitialized ==
    (RequestEnded /\ ~inScope)
    => /\ result.kind = "raise"
       /\ result.exc = "RuntimeError"
       /\ result.msg = "not_initialized"
       /\ trace = <<>>
       /\ retry_count = 0

(* C5: every session created by entering the scope is closed exactly once
   when that scope ends, normally or by an error: no session is open outside
   its scope and none is closed twice. *)
C5_SessionClosedExactlyOnce ==
    \A i \in 1..MaxSessions :
        /\ sessions[i].closes <= 1
        /\ sessions[i].state = "open" => (inScope /\ session = i /\ sessions[i].closes = 0)
        /\ (sessions[i].state # "none" /\ ~(inScope /\ session = i))
             => (sessions[i].state = "closed" /\ sessions[i].closes = 1)

C5_Witness ==
    /\ ~inScope
    /\ \E i, j \in 1..MaxSessions :
          /\ sessions[i].state = "closed" /\ sessions[i].exit = "error"
          /\ sessions[j].state = "closed" /\ sessions[j].exit = "normal"

(* C6: when the first max_retries attempts of a request fail with a
   connection error the request goes on to one more attempt, and when that
   attempt is answered with a success status and a JSON body the request
   returns that body and raises nothing. *)
C6_SuccessAfterMaxRetriesFailures ==
    (/\ op \in RequestOps
     /\ trace # <<>>
     /\ Cardinality(Attempts) >= max_retries
     /\ \A i \in Attempts : i < 2 * max_retries => trace[i].response.kind = "connerr")
    => /\ Cardinality(Attempts) = max_retries => pc # "idle"
       /\ (/\ Cardinality(Attempts) = max_retries + 1
           /\ trace[Len(trace)].response.kind = "http"
           /\ trace[Len(trace)].response.status < 400
           /\ trace[Len(trace)].response.ctype_json
           /\ trace[Len(trace)].response.well_formed)
          => (pc = "idle" /\ req_result = Ok(trace[Len(trace)].response.body))

C6_Witness ==
    /\ RequestEnded
    /\ max_retries = MaxRetries
    /\ Cardinality(Attempts) = max_retries + 1
    /\ \A i \in Attempts : i < Len(trace) => trace[i].response.kind = "connerr"
    /\ trace[Len(trace)].response.status = 200
    /\ req_result.kind = "ok"
    /\ req_result.jval.isValid = "true"

(* C7: attempts and waits alternate, starting with an attempt; the wait
   before retry k (k = 0 for the first retry) is 2^k seconds, so each wait is
   twice the one before; a wait only follows a failed attempt that is retried,
   and a request that has ended does not end on a wait. *)
C7_ExponentialBackoff ==
    /\ \A i \in 1..Len(trace) :
          IF i % 2 = 1
          THEN trace[i].ev = "attempt"
          ELSE /\ trace[i].ev = "sleep"
               /\ trace[i].secs = 2 ^ ((i \div 2) - 1)
               /\ TransportFailure(i - 1)
               /\ i > 2 => trace[i].secs = 2 * trace[i - 2].secs
    /\ pc = "sleep" => (trace # <<>> /\ trace[Len(trace)].ev = "sleep")
    /\ (pc = "idle" /\ trace # <<>>) => trace[Len(trace)].ev = "attempt"
    /\ Cardinality(Sleeps) <= max_retries

C7_Witness ==
    /\ RequestEnded
    /\ req_result.exc = "ConnectionError"
    /\ Cardinality(Sleeps) >= 2
    /\ trace[2].secs = 1
    /\ trace[4].secs = 2

(* C8: the attempt in flight, sent at clock value sent_at, carries
   Authorization "<token_type> <token>" exactly when the client holds a token whose expires_at is absent or still
   ahead of the clock at that attempt; otherwise it carries no Authorization. *)
HeaderAsClaimed(p, tok, t) ==
    LET live == tok.isSet /\ (tok.expires_at = NoExpiry \/ t < tok.expires_at)
    IN /\ p.hasAuth = live
       /\ live => p.Authorization = tok.token_type \o " " \o tok.token
       /\ ~live => p.Authorization = ""

C8_AuthorizationIffLiveToken ==
    pc = "await_response" => HeaderAsClaimed(pending, auth_token, pending.sent_at)

C8_Witness ==
    /\ pc = "await_response"
    /\ auth_token.isSet
    /\ auth_token.expires_at # NoExpiry
    /\ ~pending.hasAuth
    /\ trace # <<>>
    /\ trace[1].hasAuth
    /\ trace[1].Authorization = "JWT tokB"

(* C9: every POST /auth/validate attempt of validate_token(tok), retries
   included, carries tok in its Authorization header, whatever token the
   client held before the call. *)
ValidateTokenAttempt(p) ==
    /\ p.method = "POST"
    /\ p.endpoint = "/auth/validate"
    /\ p.hasAuth
    /\ p.Authorization = "Bearer " \o arg

C9_ValidateTokenSendsGivenToken ==
    op = "validate_token"
    => /\ \A i \in Attempts : ValidateTokenAttempt(trace[i])
       /\ pc = "await_response" => ValidateTokenAttempt(pending)

C9_Witness ==
    /\ op = "validate_token"
    /\ original_token.isSet
    /\ original_token.token # arg
    /\ pc = "await_response"
    /\ Cardinality(Attempts) >= 1

(* C10: when every attempt is answered with HTTP 404, validate_account
   returns False without raising and get_account_balance raises
   BankingAPIError with status code 404. *)
C10_NotFoundFalseVersusRaise ==
    (/\ pc = "idle"
     /\ trace # <<>>
     /\ \A i \in Attempts : trace[i].response.kind = "http" /\ trace[i].response.status = 404)
    => /\ op = "validate_account" => result = ReturnBool(FALSE)
       /\ op = "get_account_balance"
            => /\ result.kind = "raise"
               /\ result.exc = "BankingAPIError"
               /\ result.status_code = 404

C10_Witness ==
    /\ pc = "idle"
    /\ op = "validate_account"
    /\ Len(trace) = 1
    /\ trace[1].response.status = 404
    /\ result = ReturnBool(FALSE)

----------------------------------------------------------------------------
(* TransferService *)

(* The TransferService method c has ended: its client operation is over and
   svc_result is what the method returned or raised *)
SvcEnded(c) == pc = "idle" /\ caller = c /\ op = ClientOp(c) /\ result # NoResult

OneRequest ==
    /\ client_calls = 1
    /\ \A i \in Attempts : i > 1 => trace[i - 1].ev = "sleep"

(* C11 as stated: whenever the client call fails, get_transaction_history
   returns an empty sequence and validate_token returns False, and get_balance
   and list_accounts raise the client's error. *)
C11_HistoryAndTokenCheckSwallow ==
    /\ (SvcEnded("get_transaction_history") /\ result.kind = "raise")
         => svc_result = ReturnList(<<>>)
    /\ (SvcEnded("validate_token") /\ result.kind = "raise")
         => svc_result = ReturnBool(FALSE)
    /\ \A c \in {"get_balance", "list_accounts"} :
         (SvcEnded(c) /\ result.kind = "raise") => svc_result = result

(* C11 amended: whenever the client call fails, TransferService.validate_token
   returns False without raising, while get_balance, list_accounts and
   get_transaction_history end by raising the client's error unchanged. *)
C11_TokenCheckSwallowsOthersPropagate ==
    /\ (SvcEnded("validate_token") /\ result.kind = "raise")
         => svc_result = ReturnBool(FALSE)
    /\ \A c \in {"get_balance", "list_accounts", "get_transaction_history"} :
         (SvcEnded(c) /\ result.kind = "raise")
           => /\ svc_result.kind = "raise"
              /\ svc_result.exc = result.exc
              /\ svc_result.status_code = result.status_code
              /\ svc_result.msg = result.msg

C11_Witness ==
    /\ SvcEnded("get_transaction_history")
    /\ Len(trace) = 1
    /\ trace[1].response.status = 500
    /\ result.exc = "BankingAPIError"
    /\ svc_result.kind = "raise"
    /\ svc_result.status_code = 500

(* C12: TransferService.validate_account never raises; it returns what the
   client returned, and False whenever the client call failed: on an HTTP
   error status (which the client itself turns into False) and on a
   ConnectionError after max_retries + 1 failed attempts. *)
C12_ServiceValidateAccountNeverRaises ==
    SvcEnded("validate_account")
    => /\ svc_result.kind = "return"
       /\ svc_result.vtype = "bool"
       /\ result.kind = "return" => svc_result.bval = result.bval
       /\ result.kind = "raise" => svc_result.bval = FALSE
       /\ req_result.kind = "raise" => svc_result.bval = FALSE

C12_Witness ==
    /\ SvcEnded("validate_account")
    /\ max_retries >= 1
    /\ Cardinality(Attempts) = max_retries + 1
    /\ result.kind = "raise"
    /\ result.exc = "ConnectionError"
    /\ svc_result = ReturnBool(FALSE)

(* C13: TransferService.authenticate never raises; when the token request
   fails in any way (HTTP error, no token in the answer, connection failure,
   no session) it returns None, otherwise the token; and every attempt it
   causes is POST /authToken with the claim "transfer". *)
C13_AuthenticateNoneOnFailure ==
    /\ SvcEnded("authenticate")
         => /\ svc_result.kind = "return"
            /\ result.kind = "raise" => svc_result.vtype = "None"
            /\ result.kind = "return"
                 => /\ svc_result.vtype = "str"
                    /\ svc_result.sval = result.sval
            /\ \A i \in Attempts :
                 /\ trace[i].method = "POST"
                 /\ trace[i].endpoint = "/authToken"
                 /\ trace[i].params = "claim=transfer"
    /\ (caller = "authenticate" /\ pc = "await_response")
         => /\ pending.endpoint = "/authToken"
            /\ pending.params = "claim=transfer"

C13_Witness ==
    /\ SvcEnded("authenticate")
    /\ Len(trace) = 1
    /\ trace[1].response.status = 200
    /\ trace[1].params = "claim=transfer"
    /\ result.kind = "raise"
    /\ result.msg = "No token in authentication response"
    /\ svc_result.vtype = "None"

(* C14: TransferService.transfer makes one client transfer call, whose every
   attempt is POST /transfer carrying the request's fromAccount, toAccount and
   amount; when the client returns a JSON object the service returns the
   TransferResponse read from it, and when the client raises BankingAPIError
   the service ends by raising that same error. *)
C14_ServiceTransferOnceParsedPropagated ==
    SvcEnded("transfer")
    => /\ OneRequest
       /\ \A i \in Attempts :
            /\ trace[i].method = "POST"
            /\ trace[i].endpoint = "/transfer"
            /\ trace[i].json_data.kind = "transfer"
            /\ trace[i].json_data.fromAccount = request.from_account
            /\ trace[i].json_data.toAccount = request.to_account
            /\ trace[i].json_data.amount = request.amount
       /\ (result.kind = "return" /\ result.jval.jtype = "dict")
            => /\ svc_result.kind = "return"
               /\ svc_result.vtype = "TransferResponse"
               /\ result.jval.transactionId # "absent"
                    => svc_result.tval.transaction_id = result.jval.transactionId
               /\ result.jval.status # "absent"
                    => svc_result.tval.status = result.jval.status
               /\ result.jval.hasAmount => svc_result.tval.amount = result.jval.amount
               /\ (result.jval.hasNewTo /\ result.jval.newToAccountBalance # 0)
                    => /\ svc_result.tval.has_new_to
                       /\ svc_result.tval.new_to_balance = result.jval.newToAccountBalance
       /\ (result.kind = "raise" /\ result.exc = "BankingAPIError")
            => /\ svc_result.kind = "raise"
               /\ svc_result.exc = "BankingAPIError"
               /\ svc_result.status_code = result.status_code
               /\ svc_result.msg = result.msg

C14_Witness ==
    /\ SvcEnded("transfer")
    /\ request.exists
    /\ Cardinality(Attempts) = 2
    /\ trace[Len(trace)].json_data.fromAccount = "ACC1001"
    /\ trace[Len(trace)].json_data.amount = 100
    /\ svc_result.vtype = "TransferResponse"
    /\ svc_result.tval.transaction_id = "txn-123"
    /\ svc_result.tval.status = "SUCCESS"
    /\ svc_result.tval.new_to_balance = 200

----------------------------------------------------------------------------
(* TransferRequest *)

ValidTransferJson(j) ==
    /\ j.kind = "transfer"
    /\ j.fromAccount \notin BlankStrings
    /\ j.toAccount \notin BlankStrings
    /\ j.fromAccount # j.toAccount
    /\ j.amount > 0

(* C15: constructing a TransferRequest with a source account that is empty
   after trimming fails with the source-empty error; otherwise with an empty
   destination, the destination-empty error; otherwise with equal accounts,
   the same-accounts error; otherwise with an amount <= 0, the non-positive
   amount error. After a failed construction no TransferRequest exists and
   nothing was sent, and every transfer that is sent carries valid fields. *)
C15_InvalidTransferRequestRejected ==
    /\ (pc = "idle" /\ op = "TransferRequest")
         => LET f == request.from_account
                t == request.to_account
                srcEmpty == f \in BlankStrings
                dstEmpty == t \in BlankStrings
                expected ==
                    IF srcEmpty THEN "Source account cannot be empty"
                    ELSE IF dstEmpty THEN "Destination account cannot be empty"
                    ELSE IF f = t THEN "Source and destination accounts must be different"
                    ELSE "Transfer amount must be positive"
            IN /\ (srcEmpty \/ dstEmpty \/ f = t \/ request.amount <= 0)
                    => /\ result.kind = "raise"
                       /\ result.exc = "ValueError"
                       /\ result.msg = expected
               /\ result.kind = "raise"
                    => /\ ~request.exists
                       /\ trace = <<>>
                       /\ pending = NoPending
                       /\ client_calls = 0
    /\ \A i \in Attempts : trace[i].endpoint = "/transfer" => ValidTransferJson(trace[i].json_data)
    /\ (pc = "await_response" /\ pending.endpoint = "/transfer")
         => ValidTransferJson(pending.json_data)

C15_Witness ==
    /\ pc = "idle"
    /\ op = "TransferRequest"
    /\ request.from_account = " "
    /\ request.to_account = " "
    /\ request.amount = 0
    /\ result.kind = "raise"
    /\ result.msg = "Source account cannot be empty"
    /\ ~request.exists

----------------------------------------------------------------------------
(* list_accounts, the response body and get_auth_token *)

ListAccountsReturned == pc = "idle" /\ op = "list_accounts" /\ req_result.kind = "ok"

(* C16: when its request succeeded, list_accounts returns the value of the
   accounts field if the response is an object with that field, the response
   itself if it is a list, and an empty sequence if it is an object without
   the field. *)
C16_ListAccountsThreeCases ==
    ListAccountsReturned
    => LET j == req_result.jval
       IN /\ (j.jtype = "dict" /\ j.hasAccounts) => result = ReturnList(j.accounts)
          /\ j.jtype = "list" => result = ReturnList(j.items)
          /\ (j.jtype = "dict" /\ ~j.hasAccounts) => result = ReturnList(<<>>)

C16_Witness ==
    /\ ListAccountsReturned
    /\ req_result.jval.jtype = "list"
    /\ result.vtype = "list"
    /\ result.lval = <<"ACC1000">>

(* C17 as stated: list_accounts returns an empty sequence, without error, when
   the server returns a plain list or an object without the accounts key. *)
C17_PlainListOrNoKeyGivesEmpty ==
    (/\ ListAccountsReturned
     /\ \/ req_result.jval.jtype = "list"
        \/ req_result.jval.jtype = "dict" /\ ~req_result.jval.hasAccounts)
    => result = ReturnList(<<>>)

(* C17 amended: list_accounts raises no error in either case; it returns the
   list itself when the server returns a plain list, and an empty sequence
   when the response is an object without the accounts key. *)
C17_PlainListKeptNoKeyGivesEmpty ==
    (/\ ListAccountsReturned
     /\ \/ req_result.jval.jtype = "list"
        \/ req_result.jval.jtype = "dict" /\ ~req_result.jval.hasAccounts)
    => /\ result.kind = "return"
       /\ result.vtype = "list"
       /\ result.lval = IF req_result.jval.jtype = "list" THEN req_result.jval.items ELSE <<>>

C17_Witness ==
    /\ ListAccountsReturned
    /\ req_result.jval.jtype = "dict"
    /\ ~req_result.jval.hasAccounts
    /\ req_result.jval.hasTransactions
    /\ result = ReturnList(<<>>)

(* C18 as stated: when the last attempt of a request was answered with a
   status below 400 and a body that is not valid JSON, the request has
   returned the envelope {status: "success", message: <raw body>}. *)
C18_EnvelopeForInvalidJsonBelow400 ==
    (/\ RequestEnded
     /\ trace # <<>>
     /\ trace[Len(trace)].response.kind = "http"
     /\ trace[Len(trace)].response.status < ErrorStatus
     /\ ~trace[Len(trace)].response.well_formed)
    => /\ req_result.kind = "ok"
       /\ req_result.jval.status = "success"
       /\ req_result.jval.message = trace[Len(trace)].response.text

(* C19: when the token request succeeded with a JSON object, get_auth_token
   returns the object's token field if it is there and not empty, and raises
   BankingAPIError if the field is missing; whatever the answer, it never
   returns a missing or empty token. *)
C19_TokenReturnedOrApiError ==
    /\ (pc = "idle" /\ op = "get_auth_token"
          /\ req_result.kind = "ok" /\ req_result.jval.jtype = "dict")
         => LET t == req_result.jval.token
            IN /\ t \notin {"absent", ""} => result = ReturnStr(t)
               /\ t = "absent"
                    => /\ result.kind = "raise"
                       /\ result.exc = "BankingAPIError"
                       /\ result.msg = "No token in authentication response"
    /\ (pc = "idle" /\ op = "get_auth_token" /\ result.kind = "return")
         => /\ result.vtype = "str"
            /\ result.sval \notin {"absent", ""}

C19_Witness ==
    /\ pc = "idle"
    /\ op = "get_auth_token"
    /\ caller = ""
    /\ req_result.kind = "ok"
    /\ req_result.jval.token = "absent"
    /\ req_result.jval.hasAccounts
    /\ result.exc = "BankingAPIError"

----------------------------------------------------------------------------
(* The frame of the auth token *)

FrameOps ==
    {"get_auth_token", "validate_account", "get_account_balance", "list_accounts",
     "transfer", "get_transaction_history"}

(* C20: no step of get_auth_token, validate_account, get_account_balance,
   list_accounts, transfer or get_transaction_history (its start, each answer,
   each retry, its end by a value or by an error) changes the client's auth
   token, TransferService.authenticate apart, which calls set_auth_token with
   the token it got. *)
C20_TokenChangedOnlyBySetAuthToken ==
    [][(op' \in FrameOps /\ caller' # "authenticate") => auth_token' = auth_token]_vars

C20_Witness ==
    /\ pc = "idle"
    /\ op = "transfer"
    /\ caller = ""
    /\ max_retries >= 1
    /\ Cardinality(Attempts) = max_retries + 1
    /\ req_result.exc = "ConnectionError"
    /\ auth_token = AuthToken("tokA")
    /\ \A i \in Attempts : trace[i].hasAuth

----------------------------------------------------------------------------
(* validate_account's answer, TransferResponse.from_dict, authenticate's frame *)

(* C21: when validate_account's request was answered with status 200 and a
   JSON object, validate_account returns True if the object's `valid` field is
   true and False if it is false. *)
C21_ValidateAccountReadsValid ==
    (/\ pc = "idle"
     /\ op = "validate_account"
     /\ trace # <<>>
     /\ trace[Len(trace)].response.kind = "http"
     /\ trace[Len(trace)].response.status = 200
     /\ req_result.kind = "ok"
     /\ req_result.jval.jtype = "dict")
    => /\ req_result.jval.valid = "true" => result = ReturnBool(TRUE)
       /\ req_result.jval.valid = "false" => result = ReturnBool(FALSE)

(* C23: the TransferResponse that TransferService.transfer reads from a JSON
   object has status "UNKNOWN" when the object has no status, and has
   new_from_balance / new_to_balance equal to the object's balance field
   whenever the field is there, a balance of 0 included, and absent exactly
   when the field is missing. *)
C23_FromDictKeepsSuppliedBalances ==
    (/\ SvcEnded("transfer")
     /\ result.kind = "return"
     /\ result.jval.jtype = "dict")
    => /\ result.jval.status = "absent" => svc_result.tval.status = "UNKNOWN"
       /\ svc_result.tval.has_new_from = result.jval.hasNewFrom
       /\ result.jval.hasNewFrom
            => svc_result.tval.new_from_balance = result.jval.newFromAccountBalance
       /\ svc_result.tval.has_new_to = result.jval.hasNewTo
       /\ result.jval.hasNewTo
            => svc_result.tval.new_to_balance = result.jval.newToAccountBalance

(* C24: a step of TransferService.authenticate sets the client's auth token to
   the returned token when it ends with a token, and in every other case (the
   start, an answer followed by a retry, an end by any failure) leaves the
   token as it was; and a request sent while no token is set carries no
   Authorization header. *)
C24_AuthenticateSetsTokenOnlyOnSuccess ==
    [][/\ caller' = "authenticate"
            => IF pc' = "idle" /\ result'.kind = "return"
               THEN /\ auth_token' = AuthToken(result'.sval)
                    /\ svc_result'.sval = result'.sval
               ELSE auth_token' = auth_token
       /\ (~auth_token'.isSet /\ pc' = "await_response") => ~pending'.hasAuth]_vars

C24_Witness ==
    /\ SvcEnded("authenticate")
    /\ trace # <<>>
    /\ trace[Len(trace)].response.status = 404
    /\ result.kind = "raise"
    /\ svc_result.vtype = "None"
    /\ auth_token = AuthToken("tokA")

----------------------------------------------------------------------------
(* Config.load *)

(* C22 as stated: each of base URL, timeout and max retries has the value of
   its environment variable when the variable is set, otherwise the file's
   value, otherwise the default; a file value never takes the place of a set
   environment variable. *)
C22_EnvWhenSetThenFileThenDefault ==
    config.loaded
    => /\ config.env_url # Unset => config.base_url = config.env_url
       /\ config.env_url = Unset
            => config.base_url = IF config.file.has_base_url THEN config.file.base_url
                                 ELSE "http://localhost:8123"
       /\ config.env_timeout = "45" => config.timeout = 45
       /\ (config.env_timeout # Unset /\ config.file.has_timeout)
            => config.timeout # config.file.timeout
       /\ config.env_timeout = Unset
            => config.timeout = IF config.file.has_timeout THEN config.file.timeout ELSE 30
       /\ config.env_max_retries = "45" => config.max_retries = 45
       /\ (config.env_max_retries # Unset /\ config.file.has_max_retries)
            => config.max_retries # config.file.max_retries
       /\ config.env_max_retries = Unset
            => config.max_retries = IF config.file.has_max_retries
                                    THEN config.file.max_retries ELSE 3

(* C22 amended: each of base URL, timeout and max retries has the value of its
   environment variable when the variable is set to a non-empty value (for
   timeout and max retries: one that reads as an integer), otherwise the
   file's value, otherwise the default (http://localhost:8123, 30, 3); a file
   value never takes the place of such an environment value. *)
C22_UsableEnvThenFileThenDefault ==
    config.loaded
    => /\ config.base_url =
            IF config.env_url \notin {Unset, ""} THEN config.env_url
            ELSE IF config.file.has_base_url THEN config.file.base_url
            ELSE "http://localhost:8123"
       /\ config.timeout =
            IF config.env_timeout \notin {Unset, "", "abc"} THEN 45
            ELSE IF config.file.has_timeout THEN config.file.timeout
            ELSE 30
       /\ config.max_retries =
            IF config.env_max_retries \notin {Unset, "", "abc"} THEN 45
            ELSE IF config.file.has_max_retries THEN config.file.max_retries
            ELSE 3

C22_Witness ==
    /\ config.loaded
    /\ config.env_timeout = "45"
    /\ config.file.has_timeout
    /\ config.timeout = 45
    /\ config.env_max_retries = Unset
    /\ config.file.has_max_retries
    /\ config.max_retries = 5
    /\ config.env_url = Unset
    /\ ~config.file.has_base_url
    /\ config.base_url = "http://localhost:8123"

----------------------------------------------------------------------------
(* main *)

TransferSent ==
    \/ pc = "await_response" /\ pending.endpoint = "/transfer"
    \/ \E i \in Attempts : trace[i].endpoint = "/transfer"

(* C25: in a run of main with --validate, main builds the TransferRequest and
   a POST /transfer is in flight or answered only after both validate_account
   calls returned True; once either returned False no POST /transfer is sent,
   main goes to its exit after the second validation, and its exit code
   is 1. *)
C25_ValidateBeforeTransfer ==
    cli.validate
    => /\ (cli.pc \in {"build_request", "transfer"} \/ TransferSent)
            => /\ cli.from_valid = "true"
               /\ cli.to_valid = "true"
       /\ (cli.from_valid = "false" \/ cli.to_valid = "false")
            => /\ ~TransferSent
               /\ cli.pc \in {"validate_to", "exit", "done"}
               /\ cli.pc = "validate_to" => cli.to_valid = "unknown"
               /\ cli.pc \in {"exit", "done"} => cli.exit_code = 1

C25_Witness ==
    /\ cli.pc = "done"
    /\ cli.validate
    /\ cli.from_valid = "true"
    /\ cli.to_valid = "false"
    /\ cli.exit_code = 1
    /\ sessions[1].state = "closed"

(* C26: when the request before it ran out of retries and raised
   ConnectionError, a request starts again at attempt 1 (retry_count 0), its
   first back-off is 1 second, and it raises ConnectionError only after
   max_retries + 1 attempts of its own. *)
C26_RetryBudgetPerRequest ==
    cli.prev_exhausted
    => /\ pc = "await_response" => retry_count = Cardinality(Attempts)
       /\ pc = "sleep" => retry_count + 1 = Cardinality(Attempts)
       /\ Len(trace) >= 2 => trace[2].ev = "sleep" /\ trace[2].secs = 1
       /\ (pc = "idle" /\ op \in RequestOps
             /\ req_result.kind = "raise" /\ req_result.exc = "ConnectionError")
            => Cardinality(Attempts) = max_retries + 1

C26_Witness ==
    /\ cli.prev_exhausted
    /\ pc = "idle"
    /\ op \in RequestOps
    /\ max_retries = MaxRetries
    /\ Cardinality(Attempts) = max_retries + 1
    /\ req_result.kind = "raise"
    /\ req_result.exc = "ConnectionError"
    /\ trace[2].secs = 1

====
